---- MODULE Spec2Model ----
(***************************************************************************)
(* A model of the HashiCorp Vault transit client of tmkms                  *)
(* (src/keyring/providers/hashicorp/vault_client.rs).                      *)
(*                                                                         *)
(* Two specifications are given:                                           *)
(*   Spec      one VaultClient issuing blocking requests (handshake,       *)
(*             public_key, sign, wrapping_key_pem, import_key); the        *)
(*             transport result is chosen by the environment.              *)
(*   CertSpec  several threads constructing clients (VaultClient::new)     *)
(*             and resolving CA certificates through read_cert and its     *)
(*             process-wide CERT_CACHE.                                    *)
(*                                                                         *)
(* Text is a sequence of one-character strings, bytes are sequences of     *)
(* integers in 0..255.                                                     *)
(***************************************************************************)
EXTENDS Integers, Sequences, FiniteSets, TLC

\* ------------------------------------------------------------------ bounds
MaxVersion == 2
MaxRequests == 2
NumThreads == 2

\* ------------------------------------------------------- program constants
VAULT_TOKEN == "X-Vault-Token"
CONSENUS_KEY_TYPE == "ed25519"
VerifyingKeySize == 32
SignatureSize == 64
TimeoutGlobalSecs == 5

\* ------------------------------------------------------------------ base64
Alphabet ==
  << "A","B","C","D","E","F","G","H","I","J","K","L","M","N","O","P",
     "Q","R","S","T","U","V","W","X","Y","Z","a","b","c","d","e","f",
     "g","h","i","j","k","l","m","n","o","p","q","r","s","t","u","v",
     "w","x","y","z","0","1","2","3","4","5","6","7","8","9","+","/" >>

AlphabetSet == { Alphabet[i] : i \in 1..64 }

Sextet(c) == (CHOOSE i \in 1..64 : Alphabet[i] = c) - 1

\* base64::encode: standard alphabet, '=' padding to a multiple of 4.
Base64Encode(bytes) ==
  LET n == Len(bytes)
      groups == (n + 2) \div 3
      B(k) == IF k <= n THEN bytes[k] ELSE 0
      Ch(j) ==
        LET g == (j - 1) \div 4
            r == (j - 1) % 4
            b0 == B(3 * g + 1)
            b1 == B(3 * g + 2)
            b2 == B(3 * g + 3)
        IN  CASE r = 0 -> Alphabet[(b0 \div 4) + 1]
              [] r = 1 -> Alphabet[((b0 % 4) * 16 + (b1 \div 16)) + 1]
              [] r = 2 -> IF 3 * g + 2 > n THEN "="
                          ELSE Alphabet[((b1 % 16) * 4 + (b2 \div 64)) + 1]
              [] r = 3 -> IF 3 * g + 3 > n THEN "="
                          ELSE Alphabet[(b2 % 64) + 1]
  IN  [j \in 1..(4 * groups) |-> Ch(j)]

\* Number of trailing '=' of a text.
RECURSIVE TrailingPad(_)
TrailingPad(s) ==
  IF Len(s) = 0 \/ s[Len(s)] # "=" THEN 0
  ELSE 1 + TrailingPad(SubSeq(s, 1, Len(s) - 1))

\* base64::decode: fails on a symbol outside the alphabet, on misplaced or
\* excessive padding and on a length that is not a whole number of quanta.
Base64Decode(s) ==
  LET p == TrailingPad(s)
      m == Len(s) - p
      nbytes == (m * 6) \div 8
      V(j) == IF j <= m THEN Sextet(s[j]) ELSE 0
      Byte(k) ==
        LET g == (k - 1) \div 3
            r == (k - 1) % 3
        IN  CASE r = 0 -> V(4 * g + 1) * 4 + (V(4 * g + 2) \div 16)
              [] r = 1 -> (V(4 * g + 2) % 16) * 16 + (V(4 * g + 3) \div 4)
              [] r = 2 -> (V(4 * g + 3) % 4) * 64 + V(4 * g + 4)
  IN  IF \E j \in 1..m : s[j] \notin AlphabetSet
        THEN [ok |-> FALSE, error |-> "InvalidByte"]
      ELSE IF p > 2 \/ Len(s) % 4 # 0
        THEN [ok |-> FALSE, error |-> "InvalidLength"]
      ELSE [ok |-> TRUE, bytes |-> [k \in 1..nbytes |-> Byte(k)]]

\* ------------------------------------------------------------ str helpers
\* str::split(':'): n separators give n + 1 parts, empty parts included.
RECURSIVE Split(_)
Split(s) ==
  IF \A i \in 1..Len(s) : s[i] # ":" THEN << s >>
  ELSE LET i == CHOOSE k \in 1..Len(s) :
                   s[k] = ":" /\ \A l \in 1..(k - 1) : s[l] # ":"
       IN  << SubSeq(s, 1, i - 1) >> \o Split(SubSeq(s, i + 1, Len(s)))

Whitespace == { " ", "\n" }

\* str::trim: strips leading and trailing whitespace.
RECURSIVE Trim(_)
Trim(s) ==
  IF Len(s) = 0 THEN s
  ELSE IF s[1] \in Whitespace THEN Trim(SubSeq(s, 2, Len(s)))
  ELSE IF s[Len(s)] \in Whitespace THEN Trim(SubSeq(s, 1, Len(s) - 1))
  ELSE s


\* ------------------------------------------------------------ input values
KeyA == [i \in 1..32 |-> (7 * i + 1) % 256]
KeyB == [i \in 1..32 |-> (255 - 3 * i) % 256]
KeyShort == [i \in 1..31 |-> (5 * i) % 256]
KeyLong == [i \in 1..33 |-> (11 * i + 2) % 256]
SigZero == [i \in 1..64 |-> 0]
SigOne == [i \in 1..64 |-> (13 * i + 5) % 256]
Sig63 == [i \in 1..63 |-> i]
Sig65 == [i \in 1..65 |-> i]
NotBase64 == << "!", "!", "!", "!" >>

PublicKeyTexts ==
  { Base64Encode(KeyA), Base64Encode(KeyB), Base64Encode(KeyShort),
    Base64Encode(KeyLong), NotBase64 }

KeyTypeNames == { "ed25519", "rsa-2048" }

\* HashMap<String, String> of one key version; Vault always reports
\* creation_time, the other two attributes may be absent.
VersionEntries ==
  { [creation_time |-> "t", public_key |-> p, name |-> n] :
      p \in PublicKeyTexts, n \in KeyTypeNames }
  \cup { [creation_time |-> "t", public_key |-> p] : p \in PublicKeyTexts }
  \cup { [creation_time |-> "t", name |-> n] : n \in KeyTypeNames }
  \cup { [creation_time |-> "t"] }

\* BTreeMap<usize, HashMap<String, String>>
KeyMaps == UNION { [d -> VersionEntries] : d \in SUBSET (1..MaxVersion) }

Prefix == << "a", ":", "b", ":" >>

SignatureFields ==
  { Prefix \o Base64Encode(SigZero),
    Prefix \o Base64Encode(SigOne),
    Prefix \o Base64Encode(Sig63),
    Prefix \o Base64Encode(Sig65),
    Prefix \o NotBase64,
    << "a", ":", "b" >>,
    << "a", ":", "b", ":", "c", ":", "d" >>,
    Prefix \o << "c", ":" >> \o Base64Encode(SigZero),
    Base64Encode(SigZero),
    << >> }

PemTexts == { << "\n", "P", "E", "M", " ", "K", "\n" >>, << "P", "E", "M" >> }

\* Response bodies: not JSON of the envelope shape, an envelope without
\* `data`, or an envelope whose `data` is one of the three payload shapes.
Bodies ==
  { [json |-> "invalid"], [json |-> "envelope", data |-> << >>] }
  \cup { [json |-> "envelope", data |-> << [keys |-> m] >>] : m \in KeyMaps }
  \cup { [json |-> "envelope", data |-> << [signature |-> f] >>] :
           f \in SignatureFields }
  \cup { [json |-> "envelope", data |-> << [public_key |-> t] >>] :
           t \in PemTexts }

StatusCodes == { 403, 404, 503 }

\* Result<Response<Body>, ureq::Error> as delivered by the agent.
TransportResults ==
  { [kind |-> "Ok", body |-> b] : b \in Bodies }
  \cup { [kind |-> "StatusCode", code |-> c] : c \in StatusCodes }
  \cup { [kind |-> k] : k \in { "Io", "Tls", "Timeout" } }

FatalSets == { {}, { 403 }, { 403, 503 } }

KeyNames == { "val-key" }
Messages == { << >>, << 104, 105, 33 >> }

CreateKeyTypes ==
  { "Aes128Gcm96", "Aes256Gcm96", "Chacha20Poly1305", "Ed25519", "EcdsaP256",
    "EcdsaP384", "EcdsaP521", "Rsa2048", "Rsa3072", "Rsa4096" }

Ciphertexts == { << "c", "t" >> }

\* ------------------------------------------------------------------- state
VARIABLES
  \* one VaultClient and its caller
  exit_on_error,  \* VaultClient.exit_on_error
  alive,          \* FALSE once the process has panicked
  pc,             \* "idle", "awaiting" (request in flight) or "done"
  call,           \* the operation invoked by the caller and its arguments
  req,            \* the request in flight / last issued by this invocation
  resp,           \* the transport result handed to the handler
  outcome,        \* what the invocation gave its caller
  decoded,        \* whether the handler called read_json on the body
  sent,           \* requests issued by the current invocation
  netRequests,    \* requests issued by the agent so far
  \* threads constructing clients, CERT_CACHE and the file system
  tpc, targs, tpath, tclient,
  cache, mutex, poisoned, files, reads

apiVars == << exit_on_error, alive, pc, call, req, resp, outcome, decoded,
              sent, netRequests >>
certVars == << tpc, targs, tpath, tclient, cache, mutex, poisoned, files,
               reads >>
vars == << apiVars, certVars >>

api_endpoint == "https://127.0.0.1:8200"
token == "s.token"
endpoints ==
  [ keys |-> "/v1/transit/keys", sign |-> "/v1/transit/sign",
    wrapping_key |-> "/v1/transit/wrapping_key",
    handshake |-> "/v1/auth/token/lookup-self" ]

\* ----------------------------------------------------------------- results
Ok(v) == [status |-> "Ok", value |-> v]
Err(e) == [status |-> "Err", error |-> e]
Panic(site, e) == [status |-> "Panic", site |-> site, error |-> e]
NoOutcome == [status |-> "None"]
NoCall == [op |-> "none"]
NoRequest == [method |-> "none"]
NoResponse == [kind |-> "None"]

InvalidPubKey(msg) == [kind |-> "InvalidPubKey", msg |-> msg]
InvalidSignature(msg) == [kind |-> "InvalidSignature", msg |-> msg]
InvalidEmptyMessage == [kind |-> "InvalidEmptyMessage"]
NoSignature == [kind |-> "NoSignature"]
ProhibitedResponseCode(code, uri) ==
  [kind |-> "ProhibitedResponseCode", code |-> code, uri |-> uri]

\* impl From<ureq::Error> for Error: the conversion sees the transport error
\* and nothing else.
FromUreqError(e) ==
  CASE e.kind = "StatusCode" -> [kind |-> "HttpStatus", code |-> e.code]
    [] e.kind = "Json" -> [kind |-> "MalformedResponse"]
    [] OTHER -> [kind |-> "Transport", cause |-> e.kind]

\* impl From<base64::DecodeError> for Error
FromDecodeError(e) == [kind |-> "Base64Decode", cause |-> e]


\* ------------------------------------------------------------ the handlers
\* check_response_status_code without the exit_on_error test: every status
\* code is a recoverable error.
check_response_status_code_no_exit(uri, response) ==
  CASE response.kind = "Ok" -> Ok(response)
    [] response.kind = "StatusCode" ->
         Err(FromUreqError([kind |-> "StatusCode", code |-> response.code]))
    [] OTHER -> Err(FromUreqError(response))

\* check_response_status_code whose status arm forgets the code it matched.
check_response_status_code_lost_code(uri, response) ==
  CASE response.kind = "Ok" -> Ok(response)
    [] response.kind = "StatusCode" ->
         IF response.code \in exit_on_error
           THEN Panic("check_response_status_code",
                      ProhibitedResponseCode(response.code, uri))
           ELSE Err(FromUreqError([kind |-> "Io"]))
    [] OTHER -> Err(FromUreqError(response))

\* VaultClient::check_response_status_code
check_response_status_code(uri, response) ==
  CASE response.kind = "Ok" -> Ok(response)
    [] response.kind = "StatusCode" ->
         IF response.code \in exit_on_error
           THEN Panic("check_response_status_code",
                      ProhibitedResponseCode(response.code, uri))
           ELSE Err(FromUreqError([kind |-> "StatusCode",
                                   code |-> response.code]))
    [] OTHER -> Err(FromUreqError(response))

\* Body::read_json::<Root<T>>(): T is the payload struct with one required
\* field; `data` is an Option, so an envelope without it still decodes.
read_json(body, field) ==
  IF body.json # "envelope" THEN Err([kind |-> "Json"])
  ELSE IF body.data = << >> THEN Ok([data |-> << >>])
  ELSE IF field \notin DOMAIN body.data[1] THEN Err([kind |-> "Json"])
  ELSE Ok([data |-> body.data])

\* iter().next() in place of iter().last(): the oldest version.
iter_first(keys) ==
  IF DOMAIN keys = {} THEN << >>
  ELSE LET v == CHOOSE v \in DOMAIN keys : \A w \in DOMAIN keys : v <= w
       IN  << [version |-> v, map |-> keys[v]] >>

\* BTreeMap::iter().last(): the entry with the greatest key, if any.
iter_last(keys) ==
  IF DOMAIN keys = {} THEN << >>
  ELSE LET v == CHOOSE v \in DOMAIN keys : \A w \in DOMAIN keys : w <= v
       IN  << [version |-> v, map |-> keys[v]] >>

\* public_key_select without the comparison against CONSENUS_KEY_TYPE.
public_key_select_any_type(key_name, keys) ==
  LET key_data == iter_last(keys)
  IN  IF key_data # << >>
        THEN LET map == key_data[1].map
             IN  IF "public_key" \in DOMAIN map
                   THEN IF "name" \in DOMAIN map
                          THEN Ok(map.public_key)
                          ELSE Err(InvalidPubKey(
                                 << "unable to determine type", key_name,
                                    CONSENUS_KEY_TYPE >>))
                   ELSE Err(InvalidPubKey(<< "public_key is not found" >>))
        ELSE Err(InvalidPubKey(<< "last version not available" >>))

\* public_key, "latest key version" block: the base64 text of the selected
\* entry, or InvalidPubKey.
public_key_select(key_name, keys) ==
  LET key_data == iter_last(keys)
  IN  IF key_data # << >>
        THEN LET map == key_data[1].map
             IN  IF "public_key" \in DOMAIN map
                   THEN IF "name" \in DOMAIN map
                          THEN IF CONSENUS_KEY_TYPE # map.name
                                 THEN Err(InvalidPubKey(
                                        << "expected key type", key_name,
                                           CONSENUS_KEY_TYPE, map.name >>))
                                 ELSE Ok(map.public_key)
                          ELSE Err(InvalidPubKey(
                                 << "unable to determine type", key_name,
                                    CONSENUS_KEY_TYPE >>))
                   ELSE Err(InvalidPubKey(<< "public_key is not found" >>))
        ELSE Err(InvalidPubKey(<< "last version not available" >>))

\* public_key, decoding block: base64::decode(pubk)?, then
\* array.copy_from_slice(&pubk[..BYTE_SIZE]); the slice panics when fewer
\* bytes were decoded.
public_key_decode(pubk) ==
  LET d == Base64Decode(pubk)
  IN  IF ~d.ok THEN Err(FromDecodeError(d.error))
      ELSE IF Len(d.bytes) < VerifyingKeySize
        THEN Panic("public_key", [kind |-> "SliceIndex",
                                  len |-> Len(d.bytes)])
      ELSE Ok(SubSeq(d.bytes, 1, VerifyingKeySize))

\* public_key, from the transport result onwards.
public_key_resume(key_name, uri, res) ==
  LET response == check_response_status_code(uri, res)
  IN  IF response.status # "Ok"
        THEN [decoded |-> FALSE, result |-> response]
      ELSE
        LET root == read_json(response.value.body, "keys")
            result ==
              IF root.status # "Ok" THEN Err(FromUreqError(root.error))
              ELSE IF root.value.data = << >>
                THEN Err(InvalidPubKey(<< "Vault response unavailable" >>))
              ELSE LET pubk == public_key_select(key_name,
                                                 root.value.data[1].keys)
                   IN  IF pubk.status # "Ok" THEN pubk
                       ELSE public_key_decode(pubk.value)
        IN  [decoded |-> TRUE, result |-> result]

\* handshake, from the transport result onwards.
handshake_resume(uri, res) ==
  LET response == check_response_status_code(uri, res)
  IN  IF response.status # "Ok"
        THEN [decoded |-> FALSE, result |-> response]
        ELSE [decoded |-> FALSE, result |-> Ok(<< >>)]

\* sign_decode that only rejects fewer than three parts.
sign_decode_at_least_3(signature) ==
  LET parts == Split(signature)
  IN  IF Len(parts) < 3
        THEN Err(InvalidSignature(<< "expected 3 parts", Len(parts) >>))
      ELSE
        LET base64_signature == parts[Len(parts)]
            d == Base64Decode(base64_signature)
        IN  IF ~d.ok THEN Err(FromDecodeError(d.error))
            ELSE IF Len(d.bytes) # 64
              THEN Err(InvalidSignature(<< "invalid signature length",
                                           Len(d.bytes) >>))
            ELSE Ok(SubSeq(d.bytes, 1, SignatureSize))

\* sign, signature block: split on ':', three parts, base64 of 64 bytes.
sign_decode(signature) ==
  LET parts == Split(signature)
  IN  IF Len(parts) # 3
        THEN Err(InvalidSignature(<< "expected 3 parts", Len(parts) >>))
      ELSE
        LET base64_signature == parts[Len(parts)]
            d == Base64Decode(base64_signature)
        IN  IF ~d.ok THEN Err(FromDecodeError(d.error))
            ELSE IF Len(d.bytes) # 64
              THEN Err(InvalidSignature(<< "invalid signature length",
                                           Len(d.bytes) >>))
            ELSE Ok(SubSeq(d.bytes, 1, SignatureSize))

\* sign, from the transport result onwards.
sign_resume(uri, res) ==
  LET response == check_response_status_code(uri, res)
  IN  IF response.status # "Ok"
        THEN [decoded |-> FALSE, result |-> response]
      ELSE
        LET root == read_json(response.value.body, "signature")
            result ==
              IF root.status # "Ok" THEN Err(FromUreqError(root.error))
              ELSE IF root.value.data = << >> THEN Err(NoSignature)
              ELSE sign_decode(root.value.data[1].signature)
        IN  [decoded |-> TRUE, result |-> result]

\* wrapping_key_pem, from the transport result onwards.
wrapping_key_pem_resume(uri, res) ==
  LET response == check_response_status_code(uri, res)
  IN  IF response.status # "Ok"
        THEN [decoded |-> FALSE, result |-> response]
      ELSE
        LET root == read_json(response.value.body, "public_key")
            result ==
              IF root.status # "Ok" THEN Err(FromUreqError(root.error))
              ELSE IF root.value.data = << >>
                THEN Err(InvalidPubKey(<< "Error getting wrapping key!" >>))
              ELSE Ok(Trim(root.value.data[1].public_key))
        IN  [decoded |-> TRUE, result |-> result]

\* impl Display for CreateKeyType
CreateKeyType_fmt(key_type) ==
  CASE key_type = "Aes128Gcm96" -> "aes128-gcm96"
    [] key_type = "Aes256Gcm96" -> "aes256-gcm96"
    [] key_type = "Chacha20Poly1305" -> "chacha20-poly1305"
    [] key_type = "Ed25519" -> "ed25519"
    [] key_type = "EcdsaP256" -> "ecdsa-p256"
    [] key_type = "EcdsaP384" -> "ecdsa-p384"
    [] key_type = "EcdsaP521" -> "ecdsa-p521"
    [] key_type = "Rsa2048" -> "rsa-2048"
    [] key_type = "Rsa3072" -> "rsa-3072"
    [] key_type = "Rsa4096" -> "rsa-4096"

\* import_key, from the transport result onwards.
import_key_resume(uri, res) ==
  LET response == check_response_status_code(uri, res)
  IN  IF response.status # "Ok"
        THEN [decoded |-> FALSE, result |-> response]
        ELSE [decoded |-> FALSE, result |-> Ok(<< >>)]

\* ----------------------------------------------------- actions of one client
\* agent.get(uri) / agent.post(uri) with the token header: the request
\* leaves and the caller blocks until the transport answers.
Issue(method, uri, body) ==
  /\ req' = [method |-> method, uri |-> uri,
             header |-> << VAULT_TOKEN, token >>, body |-> body]
  /\ pc' = "awaiting"
  /\ sent' = sent + 1
  /\ netRequests' = netRequests + 1
  /\ UNCHANGED << exit_on_error, alive, resp, outcome, decoded >>

\* The handler runs to its end on the transport result `res`.
Finish(r, res) ==
  /\ resp' = res
  /\ outcome' = r.result
  /\ decoded' = r.decoded
  /\ alive' = (r.result.status # "Panic")
  /\ pc' = "done"
  /\ UNCHANGED << exit_on_error, call, req, sent, netRequests >>

CanCall == alive /\ pc = "idle" /\ netRequests < MaxRequests

handshake_call ==
  /\ CanCall
  /\ call' = [op |-> "handshake"]
  /\ Issue("GET", << api_endpoint, endpoints.handshake >>, << >>)

handshake_return ==
  /\ alive /\ pc = "awaiting" /\ call.op = "handshake"
  /\ \E res \in TransportResults : Finish(handshake_resume(req.uri, res), res)

public_key_call ==
  /\ CanCall
  /\ \E key_name \in KeyNames :
       /\ call' = [op |-> "public_key", key_name |-> key_name]
       /\ Issue("GET", << api_endpoint, endpoints.keys, "/", key_name >>,
                << >>)

\* public_key that sends the request again after a failure.
public_key_return_retry ==
  /\ alive /\ pc = "awaiting" /\ call.op = "public_key"
  /\ \E res \in TransportResults :
       LET r == public_key_resume(call.key_name, req.uri, res)
       IN  IF r.result.status = "Err" /\ sent < 2
             THEN /\ sent' = sent + 1
                  /\ netRequests' = netRequests + 1
                  /\ UNCHANGED << exit_on_error, alive, pc, call, req, resp,
                                  outcome, decoded >>
             ELSE Finish(r, res)

public_key_return ==
  /\ alive /\ pc = "awaiting" /\ call.op = "public_key"
  /\ \E res \in TransportResults :
       Finish(public_key_resume(call.key_name, req.uri, res), res)

\* sign without the message.is_empty() test.
sign_call_unchecked ==
  /\ CanCall
  /\ \E key_name \in KeyNames, message \in Messages :
       /\ call' = [op |-> "sign", key_name |-> key_name,
                   message |-> message]
       /\ Issue("POST", << api_endpoint, endpoints.sign, "/", key_name >>,
                [input |-> Base64Encode(message)])

sign_call ==
  /\ CanCall
  /\ \E key_name \in KeyNames, message \in Messages :
       /\ call' = [op |-> "sign", key_name |-> key_name,
                   message |-> message]
       /\ IF Len(message) = 0
            THEN /\ outcome' = Err(InvalidEmptyMessage)
                 /\ pc' = "done"
                 /\ UNCHANGED << exit_on_error, alive, req, resp, decoded,
                                 sent, netRequests >>
            ELSE Issue("POST",
                       << api_endpoint, endpoints.sign, "/", key_name >>,
                       [input |-> Base64Encode(message)])

sign_return ==
  /\ alive /\ pc = "awaiting" /\ call.op = "sign"
  /\ \E res \in TransportResults : Finish(sign_resume(req.uri, res), res)

wrapping_key_pem_call ==
  /\ CanCall
  /\ call' = [op |-> "wrapping_key_pem"]
  /\ Issue("GET", << api_endpoint, endpoints.wrapping_key >>, << >>)

wrapping_key_pem_return ==
  /\ alive /\ pc = "awaiting" /\ call.op = "wrapping_key_pem"
  /\ \E res \in TransportResults :
       Finish(wrapping_key_pem_resume(req.uri, res), res)

ImportKeyTypes == { "Ed25519", "Rsa2048" }

import_key_call ==
  /\ CanCall
  /\ \E key_name \in KeyNames, key_type \in ImportKeyTypes,
        ciphertext \in Ciphertexts, exportable \in BOOLEAN :
       /\ call' = [op |-> "import_key", key_name |-> key_name,
                   key_type |-> key_type, ciphertext |-> ciphertext,
                   exportable |-> exportable]
       /\ Issue("POST",
                << api_endpoint, endpoints.keys, "/", key_name, "/import" >>,
                [type |-> CreateKeyType_fmt(key_type),
                 ciphertext |-> ciphertext, hash_function |-> "SHA256",
                 exportable |-> exportable])

import_key_return ==
  /\ alive /\ pc = "awaiting" /\ call.op = "import_key"
  /\ \E res \in TransportResults : Finish(import_key_resume(req.uri, res), res)

\* The caller takes the result and is free to invoke the next operation.
Return ==
  /\ alive /\ pc = "done"
  /\ pc' = "idle"
  /\ call' = NoCall
  /\ req' = NoRequest
  /\ resp' = NoResponse
  /\ outcome' = NoOutcome
  /\ decoded' = FALSE
  /\ sent' = 0
  /\ UNCHANGED << exit_on_error, alive, netRequests >>

ApiIdle ==
  /\ alive = TRUE
  /\ pc = "idle"
  /\ call = NoCall
  /\ req = NoRequest
  /\ resp = NoResponse
  /\ outcome = NoOutcome
  /\ decoded = FALSE
  /\ sent = 0
  /\ netRequests = 0

\* ------------------------------------------- VaultClient::new and read_cert
Threads == 1..NumThreads
CertPaths == { "ca1.pem", "ca2.pem" }

DerA == << 48, 3, 2, 1, 10 >>
DerB == << 48, 3, 2, 1, 11 >>
PemBegin == "-----BEGIN CERTIFICATE-----"
PemEnd == "-----END CERTIFICATE-----"
Pem(der) == << PemBegin, Base64Encode(der), PemEnd >>
Absent == << "absent" >>
Garbage == << "garbage", "text" >>
FileContents == { Pem(DerA), Pem(DerB), Garbage }

\* CertificateDer::from_pem_slice: the DER bytes of the certificate section.
from_pem_slice(content) ==
  IF Len(content) = 3 /\ content[1] = PemBegin /\ content[3] = PemEnd
    THEN LET d == Base64Decode(content[2])
         IN  IF d.ok THEN Ok(d.bytes) ELSE Err("Base64")
    ELSE Err("NoItemsFound")

\* Option<T>
None == << >>
Some(v) == << v >>

DefaultTls ==
  [configured |-> FALSE, disable_verification |-> FALSE, root_certs |-> << >>]
DisabledTls ==
  [configured |-> TRUE, disable_verification |-> TRUE, root_certs |-> << >>]
RootCertsTls(certs) ==
  [configured |-> TRUE, disable_verification |-> FALSE, root_certs |-> certs]

\* The agent and the struct VaultClient::new returns.
Client(tls) ==
  [timeout_global |-> TimeoutGlobalSecs, tls |-> tls,
   api_endpoint |-> api_endpoint, token |-> token, exit_on_error |-> {}]

NoArgs == [ca_cert |-> None, skip_verify |-> None]

\* new_tls that looks at ca_cert before skip_verify.
new_tls_ca_first(ca_cert, skip_verify) ==
  IF ca_cert # None \/ skip_verify # None
    THEN IF ca_cert # None
           THEN [step |-> "read_cert", path |-> ca_cert[1]]
         ELSE IF skip_verify # None /\ skip_verify[1]
           THEN [step |-> "build", tls |-> DisabledTls]
         ELSE [step |-> "build", tls |-> DefaultTls]
    ELSE [step |-> "build", tls |-> DefaultTls]

\* VaultClient::new up to the build of the agent or the call of read_cert:
\* "build" with the TLS configuration, or "read_cert" with the path.
new_tls(ca_cert, skip_verify) ==
  IF ca_cert # None \/ skip_verify # None
    THEN IF skip_verify # None /\ skip_verify[1]
           THEN [step |-> "build", tls |-> DisabledTls]
         ELSE IF ca_cert # None
           THEN [step |-> "read_cert", path |-> ca_cert[1]]
         ELSE [step |-> "build", tls |-> DefaultTls]
    ELSE [step |-> "build", tls |-> DefaultTls]

\* HashMap::insert
insert(map, k, v) ==
  [q \in DOMAIN map \cup { k } |-> IF q = k THEN v ELSE map[q]]

\* A thread calls VaultClient::new(.., ca_cert, skip_verify, ..).
new(t) ==
  /\ tpc[t] = "idle"
  /\ \E ca_cert \in { None } \cup { Some(p) : p \in CertPaths },
        skip_verify \in { None, Some(TRUE), Some(FALSE) } :
       LET n == new_tls(ca_cert, skip_verify)
       IN  /\ targs' = [targs EXCEPT ![t] = [ca_cert |-> ca_cert,
                                             skip_verify |-> skip_verify]]
           /\ IF n.step = "build"
                THEN /\ tpc' = [tpc EXCEPT ![t] = "built"]
                     /\ tclient' = [tclient EXCEPT ![t] = Some(Client(n.tls))]
                     /\ UNCHANGED tpath
                ELSE /\ tpc' = [tpc EXCEPT ![t] = "lock"]
                     /\ tpath' = [tpath EXCEPT ![t] = n.path]
                     /\ UNCHANGED tclient
  /\ UNCHANGED << cache, mutex, poisoned, files, reads >>

\* VaultClient::new after read_cert has returned `cert`: the certificate is
\* the only root and the client is built.
Pinned(t, cert) ==
  /\ tclient' = [tclient EXCEPT ![t] = Some(Client(RootCertsTls(<< cert >>)))]
  /\ tpc' = [tpc EXCEPT ![t] = "built"]
  /\ tpath' = [tpath EXCEPT ![t] = ""]
  /\ UNCHANGED targs

\* A panic ends the thread.
Panicked(t) ==
  /\ tpc' = [tpc EXCEPT ![t] = "panicked"]
  /\ targs' = [targs EXCEPT ![t] = NoArgs]
  /\ tpath' = [tpath EXCEPT ![t] = ""]
  /\ UNCHANGED tclient

\* read_cert_lock without the contains_key test: every call reads the file.
read_cert_lock_always_read(t) ==
  /\ tpc[t] = "lock"
  /\ mutex = 0
  /\ IF poisoned
       THEN Panicked(t) /\ UNCHANGED mutex
       ELSE /\ mutex' = t
            /\ tpc' = [tpc EXCEPT ![t] = "read"]
            /\ UNCHANGED << targs, tpath, tclient >>
  /\ UNCHANGED << cache, poisoned, files, reads >>

\* read_cert: cache.lock().unwrap() and map.contains_key(path).  The lock of
\* a poisoned mutex yields an error and the unwrap panics.  With the path in
\* the map, map.get(path) is copied and returned and the guard dropped.
read_cert_lock(t) ==
  /\ tpc[t] = "lock"
  /\ mutex = 0
  /\ IF poisoned
       THEN Panicked(t) /\ UNCHANGED mutex
       ELSE IF tpath[t] \in DOMAIN cache
         THEN Pinned(t, cache[tpath[t]]) /\ UNCHANGED mutex
         ELSE /\ mutex' = t
              /\ tpc' = [tpc EXCEPT ![t] = "read"]
              /\ UNCHANGED << targs, tpath, tclient >>
  /\ UNCHANGED << cache, poisoned, files, reads >>

\* read_cert with the path not in the map: fs::read(path).expect(..),
\* from_pem_slice(&content).unwrap(), map.insert(path, der), then
\* map.get(path) is copied and returned and the guard dropped.  A panic
\* unwinds through the guard, which poisons and releases the mutex.
read_cert_read(t) ==
  /\ tpc[t] = "read"
  /\ mutex = t
  /\ reads' = [reads EXCEPT ![tpath[t]] = @ + 1]
  /\ mutex' = 0
  /\ LET content == files[tpath[t]]
         cert_der == from_pem_slice(content)
     IN  IF content = Absent \/ cert_der.status # "Ok"
           THEN /\ Panicked(t)
                /\ poisoned' = TRUE
                /\ UNCHANGED cache
           ELSE /\ cache' = insert(cache, tpath[t], cert_der.value)
                /\ Pinned(t, cache'[tpath[t]])
                /\ UNCHANGED poisoned
  /\ UNCHANGED files

\* The thread is done with its client and may construct another.
drop(t) ==
  /\ tpc[t] = "built"
  /\ tpc' = [tpc EXCEPT ![t] = "idle"]
  /\ targs' = [targs EXCEPT ![t] = NoArgs]
  /\ tclient' = [tclient EXCEPT ![t] = None]
  /\ UNCHANGED << tpath, cache, mutex, poisoned, files, reads >>

\* The operator replaces, corrupts or removes a certificate file.
WriteFile ==
  /\ \E p \in CertPaths, c \in FileContents \cup { Absent } :
       /\ c # files[p]
       /\ files' = [files EXCEPT ![p] = c]
  /\ UNCHANGED << tpc, targs, tpath, tclient, cache, mutex, poisoned, reads >>

CertIdle ==
  /\ tpc = [t \in Threads |-> "idle"]
  /\ targs = [t \in Threads |-> NoArgs]
  /\ tpath = [t \in Threads |-> ""]
  /\ tclient = [t \in Threads |-> None]
  /\ cache = << >>
  /\ mutex = 0
  /\ poisoned = FALSE
  /\ reads = [p \in CertPaths |-> 0]

Init ==
  /\ exit_on_error \in FatalSets
  /\ ApiIdle
  /\ CertIdle
  /\ files = [p \in CertPaths |-> Absent]

Next ==
  \/ (handshake_call /\ UNCHANGED certVars)
  \/ (handshake_return /\ UNCHANGED certVars)
  \/ (public_key_call /\ UNCHANGED certVars)
  \/ (public_key_return /\ UNCHANGED certVars)
  \/ (sign_call /\ UNCHANGED certVars)
  \/ (sign_return /\ UNCHANGED certVars)
  \/ (wrapping_key_pem_call /\ UNCHANGED certVars)
  \/ (wrapping_key_pem_return /\ UNCHANGED certVars)
  \/ (import_key_call /\ UNCHANGED certVars)
  \/ (import_key_return /\ UNCHANGED certVars)
  \/ (Return /\ UNCHANGED certVars)

Spec == Init /\ [][Next]_vars

CertInit ==
  /\ exit_on_error = {}
  /\ ApiIdle
  /\ CertIdle
  /\ files \in [CertPaths -> FileContents \cup { Absent }]

CertNext ==
  \/ \E t \in Threads : new(t) /\ UNCHANGED apiVars
  \/ \E t \in Threads : read_cert_lock(t) /\ UNCHANGED apiVars
  \/ \E t \in Threads : read_cert_read(t) /\ UNCHANGED apiVars
  \/ \E t \in Threads : drop(t) /\ UNCHANGED apiVars
  \/ (WriteFile /\ UNCHANGED apiVars)

CertSpec == CertInit /\ [][CertNext]_vars


\* ------------------------------------------------------------ the properties
Operations ==
  { "handshake", "public_key", "sign", "wrapping_key_pem", "import_key" }

\* The invocation has ended on a successful response whose envelope carries
\* a payload with the given field.
DoneWith(op, field) ==
  /\ pc = "done" /\ call.op = op
  /\ resp.kind = "Ok" /\ resp.body.json = "envelope"
  /\ resp.body.data # << >>
  /\ field \in DOMAIN resp.body.data[1]

Versions == resp.body.data[1].keys

Latest == CHOOSE v \in DOMAIN Versions : \A w \in DOMAIN Versions : v >= w

WellFormed(e) ==
  /\ "public_key" \in DOMAIN e
  /\ "name" \in DOMAIN e
  /\ e.name = "ed25519"
  /\ Base64Decode(e.public_key).ok
  /\ Len(Base64Decode(e.public_key).bytes) = 32

IsError(kind) == outcome.status = "Err" /\ outcome.error.kind = kind

\* C1: the public-key fetch returns the 32 bytes of the entry with the
\* greatest version number whenever that entry is well-formed, whatever the
\* other versions hold, and fails with InvalidPubKey on an empty version map.
C1_SelectLatest ==
  DoneWith("public_key", "keys") =>
    /\ DOMAIN Versions = {} => IsError("InvalidPubKey")
    /\ (DOMAIN Versions # {} /\ WellFormed(Versions[Latest])) =>
         /\ outcome.status = "Ok"
         /\ Len(outcome.value) = 32
         /\ Base64Encode(outcome.value) = Versions[Latest].public_key

C1_Witness ==
  /\ DoneWith("public_key", "keys")
  /\ Cardinality(DOMAIN Versions) >= 2
  /\ \A v \in DOMAIN Versions : WellFormed(Versions[v])
  /\ Versions[Latest].public_key = Base64Encode(KeyB)
  /\ \E v \in DOMAIN Versions : Versions[v].public_key = Base64Encode(KeyA)
  /\ outcome = Ok(KeyB)

FatalStatus == resp.kind = "StatusCode" /\ resp.code \in exit_on_error

AbortedByClassifier ==
  outcome.status = "Panic" /\ outcome.site = "check_response_status_code"

\* C2: in each of the five operations the classifier ends the process exactly
\* when the transport result is a status code of the fatal set, and then the
\* body was never decoded; a successful response, any other status code and
\* any other transport failure pass the classifier without an abort.
C2_AbortIffFatal ==
  (pc = "done" /\ call.op \in Operations) =>
    /\ AbortedByClassifier <=> FatalStatus
    /\ FatalStatus => (~alive /\ ~decoded)

C2_Witness ==
  /\ pc = "done" /\ call.op = "public_key"
  /\ resp.kind = "StatusCode" /\ resp.code = 503
  /\ exit_on_error = { 403, 503 }
  /\ AbortedByClassifier /\ ~alive

NonFatalStatus == resp.kind = "StatusCode" /\ resp.code \notin exit_on_error

SignsEmpty == call.op = "sign" /\ Len(call.message) = 0

\* C4: sign with an empty message ends at once with InvalidEmptyMessage; the
\* step issues no request and leaves the count of network requests as it was.
C4_EmptyMessage ==
  /\ [](SignsEmpty =>
          /\ pc = "done" /\ sent = 0 /\ req = NoRequest
          /\ outcome = Err(InvalidEmptyMessage))
  /\ [][SignsEmpty' => (SignsEmpty \/ netRequests' = netRequests)]_vars

C4_Witness ==
  /\ SignsEmpty /\ pc = "done"
  /\ netRequests = 1 /\ sent = 0
  /\ outcome = Err(InvalidEmptyMessage)

Field == resp.body.data[1].signature

Colons(f) == Cardinality({ i \in 1..Len(f) : f[i] = ":" })

\* The text after the last ':' of f.
LastPart(f) ==
  LET at == { i \in 1..Len(f) : f[i] = ":" }
      from == IF at = {} THEN 0 ELSE CHOOSE i \in at : \A k \in at : k <= i
  IN  SubSeq(f, from + 1, Len(f))

\* C5 as stated: the signature field gives its 64 bytes when it has exactly
\* three ':'-separated parts and the last one is base64 of exactly 64 bytes,
\* and InvalidSignature in every other case.
C5_InvalidSignatureOtherwise ==
  DoneWith("sign", "signature") =>
    LET d == Base64Decode(LastPart(Field))
    IN  IF Colons(Field) = 2 /\ d.ok /\ Len(d.bytes) = 64
          THEN outcome = Ok(d.bytes)
          ELSE IsError("InvalidSignature")

\* C5 amended: InvalidSignature unless there are exactly three parts; with
\* three parts, a last part that is not base64 fails with the converted
\* base64 decode error, a last part that decodes to a length other than 64
\* fails with InvalidSignature, and otherwise exactly the 64 decoded bytes
\* are returned.
C5_SignatureDecoding ==
  DoneWith("sign", "signature") =>
    LET d == Base64Decode(LastPart(Field))
    IN  /\ Colons(Field) # 2 => IsError("InvalidSignature")
        /\ (Colons(Field) = 2 /\ ~d.ok) =>
             outcome = Err(FromDecodeError(d.error))
        /\ (Colons(Field) = 2 /\ d.ok /\ Len(d.bytes) # 64) =>
             IsError("InvalidSignature")
        /\ (Colons(Field) = 2 /\ d.ok /\ Len(d.bytes) = 64) =>
             /\ outcome.status = "Ok"
             /\ Len(outcome.value) = 64
             /\ Base64Encode(outcome.value) = LastPart(Field)

C5_Witness ==
  /\ DoneWith("sign", "signature")
  /\ Field = Prefix \o Base64Encode(SigOne)
  /\ outcome = Ok(SigOne)

\* The selected entry passed the checks on `public_key` and `name`.
SelectedValid ==
  /\ DoneWith("public_key", "keys")
  /\ DOMAIN Versions # {}
  /\ "public_key" \in DOMAIN Versions[Latest]
  /\ "name" \in DOMAIN Versions[Latest]
  /\ Versions[Latest].name = "ed25519"

\* C8: decoding the selected public key returns its first 32 bytes when at
\* least 32 bytes decode, and otherwise returns an error to the caller; the
\* process is never aborted.
C8_ShortKeyIsError ==
  SelectedValid =>
    LET d == Base64Decode(Versions[Latest].public_key)
    IN  IF d.ok /\ Len(d.bytes) >= 32
          THEN outcome = Ok(SubSeq(d.bytes, 1, 32))
          ELSE outcome.status = "Err" /\ alive

\* C9: only the entry with the greatest version is validated: a missing or
\* different `name`, or a missing `public_key`, in it fails the fetch with
\* InvalidPubKey even if older versions are well-formed, and no older
\* version makes the fetch fail when that entry is well-formed.
C9_OnlyLatestValidated ==
  (DoneWith("public_key", "keys") /\ DOMAIN Versions # {}) =>
    LET e == Versions[Latest]
    IN  /\ ("name" \notin DOMAIN e \/ e.name # "ed25519"
              \/ "public_key" \notin DOMAIN e) => IsError("InvalidPubKey")
        /\ WellFormed(e) => outcome.status = "Ok"

C9_Witness ==
  /\ DoneWith("public_key", "keys")
  /\ \E v \in DOMAIN Versions : v < Latest /\ WellFormed(Versions[v])
  /\ "public_key" \in DOMAIN Versions[Latest]
  /\ "name" \in DOMAIN Versions[Latest]
  /\ Versions[Latest].name = "rsa-2048"
  /\ IsError("InvalidPubKey")

\* The request of the current invocation failed: a transport error, a status
\* code outside the fatal set, or a body the handler decoded and found
\* malformed or without `data`.
FailedRequest ==
  \/ resp.kind \in { "Io", "Tls", "Timeout" }
  \/ NonFatalStatus
  \/ decoded /\ (resp.body.json # "envelope" \/ resp.body.data = << >>)

Pins(t, p) ==
  /\ tpc[t] # "idle"
  /\ targs[t].ca_cert = Some(p)
  /\ targs[t].skip_verify # Some(TRUE)

\* C6: whatever the interleaving of the threads, a path is read from the
\* file system at most once and exactly once if it is cached; every
\* resolution returns the bytes stored at the first one; a stored entry is
\* never overwritten or removed and its file is never read again.
C6_CertCache ==
  /\ [](\A p \in CertPaths :
          /\ reads[p] <= 1
          /\ p \in DOMAIN cache => reads[p] = 1
          /\ \A t \in Threads :
               (Pins(t, p) /\ tpc[t] = "built") =>
                 /\ p \in DOMAIN cache
                 /\ tclient[t][1].tls.root_certs = << cache[p] >>)
  /\ [][\A p \in DOMAIN cache :
          /\ p \in DOMAIN cache'
          /\ cache'[p] = cache[p]
          /\ reads'[p] = reads[p]]_vars

C6_Witness ==
  \E p \in CertPaths :
    /\ \A t \in Threads : Pins(t, p) /\ tpc[t] = "built"
    /\ reads[p] = 1
    /\ files[p] # Absent
    /\ from_pem_slice(files[p]) # Ok(cache[p])
    /\ \A t \in Threads : tclient[t][1].tls.root_certs = << cache[p] >>

\* C7: a client under construction with skip_verify = true gets a TLS
\* configuration without verification and never enters read_cert; otherwise
\* one with a CA path resolves exactly that path and pins its certificate as
\* the only root; otherwise the agent's default TLS configuration is kept.
C7_TrustPolicy ==
  \A t \in Threads :
    tpc[t] \notin { "idle", "panicked" } =>
      LET a == targs[t]
      IN  IF a.skip_verify = Some(TRUE)
            THEN /\ tpc[t] = "built"
                 /\ tclient[t][1].tls.disable_verification
                 /\ tclient[t][1].tls.root_certs = << >>
          ELSE IF a.ca_cert # None
            THEN /\ tpc[t] \in { "lock", "read" } =>
                      tpath[t] = a.ca_cert[1]
                 /\ tpc[t] = "built" =>
                      /\ ~tclient[t][1].tls.disable_verification
                      /\ tclient[t][1].tls.root_certs
                           = << cache[a.ca_cert[1]] >>
          ELSE /\ tpc[t] = "built"
               /\ tclient[t][1].tls = DefaultTls

C7_Witness ==
  \E t \in Threads :
    /\ tpc[t] = "built"
    /\ targs[t] = [ca_cert |-> Some("ca1.pem"), skip_verify |-> Some(TRUE)]
    /\ files["ca1.pem"] # Absent
    /\ reads["ca1.pem"] = 0
    /\ tclient[t][1].tls = DisabledTls

====
